---- MODULE Spec2Model ----
(***************************************************************************)
(* Model of src/ingesta.py: a batch job that exports PostgreSQL tables to  *)
(* CSV files in chunks and uploads the files to S3.                        *)
(*                                                                         *)
(* Strings that the code inspects character by character (table names,    *)
(* the schema name, the S3 prefix, file names, keys) are sequences of      *)
(* one-character strings.  Strings the code only tests for emptiness       *)
(* (PG_DB, PG_USER, PG_PASSWORD, S3_BUCKET) are TLA+ strings.              *)
(*                                                                         *)
(* A CSV file is the sequence of its lines: 0 is a header line, a row of   *)
(* the table is its (positive) position in the query result.               *)
(***************************************************************************)
EXTENDS Naturals, Integers, Sequences, FiniteSets, TLC

\* ------------------------------------------------------------- bounds
MaxTables == 2      \* longest TABLES list
MaxRows   == 2      \* largest table
MaxChunk  == 2      \* largest CHUNKSIZE
MaxLen    == 3      \* longest string given to safe_ident in SpecGuard

\* ------------------------------------------------------------- characters
NL == "\n"
Letters  == {"u", "o", "p", "Z"}
Digits   == {"7"}
Alphabet == Letters \cup Digits \cup {"_", " ", ";", "'", NL, "U+00E9"}

\* [A-Za-z0-9_]
IdentChar(c) == c \in Letters \cup Digits \cup {"_"}

\* All strings over S of length at most n.
StringsUpTo(S, n) == UNION {[1..k -> S] : k \in 0..n}

\* ------------------------------------------------------------- safe_ident
\* The language of ^[A-Za-z0-9_]+$ as the claim reads it: non-empty, every
\* character an identifier character.
StrictIdent(s) == Len(s) >= 1 /\ \A k \in 1..Len(s) : IdentChar(s[k])

\* VALID_IDENT.match(name): re.match anchors at the start; [A-Za-z0-9_]+ takes
\* a non-empty run of identifier characters; without re.MULTILINE, "$" matches
\* at the end of the string and also just before a newline that is the last
\* character of the string.
VALID_IDENT_match(s) ==
  \E n \in 1..Len(s) :
     /\ \A k \in 1..n : IdentChar(s[k])
     /\ \/ n = Len(s)
        \/ n = Len(s) - 1 /\ s[Len(s)] = NL

\* safe_ident(name): the name unchanged, or ValueError.
safe_ident(s) ==
  IF ~VALID_IDENT_match(s)
  THEN [ok |-> FALSE, error |-> "ValueError", value |-> s]
  ELSE [ok |-> TRUE, error |-> "none", value |-> s]

\* ------------------------------------------------------------- paths and keys
OUTPUT_DIR == <<"/", "o", "u", "t">>
TIMESTAMP  == <<"T">>

\* f"{table}_{TIMESTAMP}.csv"
FileName(table) == table \o <<"_">> \o TIMESTAMP \o <<".", "c", "s", "v">>

\* os.path.join(out_dir, filename), kept as the pair (directory, file name)
OutPath(out_dir, table) == <<out_dir, FileName(table)>>

\* os.path.basename(local_path)
basename(path) == path[2]

\* prefix.rstrip('/')
RECURSIVE rstrip(_)
rstrip(s) ==
  IF Len(s) > 0 /\ s[Len(s)] = "/" THEN rstrip(SubSeq(s, 1, Len(s) - 1)) ELSE s

\* the key upload_to_s3 computes
S3Key(local_path, prefix) ==
  IF prefix # <<>>
  THEN rstrip(prefix) \o <<"/">> \o basename(local_path)
  ELSE basename(local_path)

\* ------------------------------------------------------------- chunks
Min(a, b) == IF a <= b THEN a ELSE b

\* ceil(r / c) for c >= 1
CeilDiv(r, c) == (r + c - 1) \div c

\* the chunk size not handed to the fetch: all the rows left come at once
FetchMany_all(fetched, total, size) ==
  [k \in 1..(total - fetched) |-> fetched + k]

\* result.fetchmany(chunksize) after `fetched` rows of a result of `total`
\* rows: the next rows, in result order, at most `size` of them.
FetchMany(fetched, total, size) ==
  [k \in 1..Min(size, total - fetched) |-> fetched + k]

\* len(chunk)
ChunkLen(chunk) == Len(chunk)

\* chunk.to_csv(mode="a", header=h): the lines appended to the file.
CsvLines(chunk, header) == (IF header THEN <<0>> ELSE <<>>) \o chunk

RECURSIVE Flatten(_)
Flatten(ss) == IF ss = <<>> THEN <<>> ELSE Head(ss) \o Flatten(Tail(ss))

Range(s) == {s[k] : k \in DOMAIN s}

\* ------------------------------------------------------------- state
VARIABLES
  \* configuration, read from the environment when the module is loaded
  PG_DB, PG_USER, PG_PASSWORD, PG_SCHEMA, TABLES, CHUNKSIZE, S3_BUCKET, S3_PREFIX,
  \* the environment the run meets
  db,              \* the tables of the schema: table name -> number of rows
  emptyFrame,      \* whether read_sql yields one empty frame for an empty result
  \* main()
  pc,              \* position in main()
  tbl,             \* index of `tbl` in `for tbl in TABLES`
  exported_files,  \* main's list of exported paths
  upl,             \* index of `path` in `for path in exported_files`
  exit_status,     \* the process's exit status, -1 while it runs
  error,           \* the exception that ended the run and the function it left
  \* export_table_to_csv()
  header_written, row_count,
  fetched,         \* rows the read_sql generator has fetched so far
  yielded,         \* chunks the read_sql generator has yielded so far
  appends,         \* the chunks appended by this call, in order
  \* effects
  dir_made,        \* whether os.makedirs(OUTPUT_DIR) has run
  files,           \* local storage: path -> lines of the file
  db_calls,        \* every statement sent to the database, in order
  uploads,         \* every upload attempted, in order
  s3,              \* the bucket: key -> lines of the object
  log,             \* console lines, in order
  exports,         \* one record per completed export_table_to_csv call
  \* safe_ident on its own
  name, result

env   == <<PG_DB, PG_USER, PG_PASSWORD, PG_SCHEMA, TABLES, CHUNKSIZE, S3_BUCKET,
           S3_PREFIX, db, emptyFrame>>
main  == <<pc, tbl, exported_files, upl, exit_status, error>>
local == <<header_written, row_count, fetched, yielded, appends>>
world == <<dir_made, files, db_calls, uploads, s3, log, exports>>
guard == <<name, result>>
vars  == <<env, main, local, world, guard>>

\* ------------------------------------------------------------- inputs
users  == <<"u">>
orders == <<"o">>
evil   == <<"u", ";">>
TableNames  == {users, orders, evil}
SchemaNames == {<<"p">>, <<"p", "'">>}
Prefixes    == {<<>>, <<"p", "/">>}
Settings    == {"", "x"}

NoError == [exc |-> "none", at |-> "none"]

Idle == [ok |-> FALSE, error |-> "idle", value |-> <<>>]

InitRun ==
  /\ pc = "validate"
  /\ tbl = 1
  /\ exported_files = <<>>
  /\ upl = 1
  /\ exit_status = -1
  /\ error = NoError
  /\ header_written = FALSE
  /\ row_count = 0
  /\ fetched = 0
  /\ yielded = 0
  /\ appends = <<>>
  /\ dir_made = FALSE
  /\ files = <<>>
  /\ db_calls = <<>>
  /\ uploads = <<>>
  /\ s3 = <<>>
  /\ log = <<>>
  /\ exports = <<>>

Init ==
  /\ PG_DB \in Settings
  /\ PG_USER \in Settings
  /\ PG_PASSWORD \in Settings
  /\ S3_BUCKET \in Settings
  /\ PG_SCHEMA \in SchemaNames
  /\ S3_PREFIX \in Prefixes
  /\ CHUNKSIZE \in 1..MaxChunk
  /\ TABLES \in StringsUpTo(TableNames, MaxTables)
  /\ db \in UNION {[E -> 0..MaxRows] : E \in SUBSET Range(TABLES)}
  /\ emptyFrame \in BOOLEAN
  /\ InitRun
  /\ name = <<>>
  /\ result = Idle

\* ------------------------------------------------------------- helpers
\* The process ends: sys.exit(status), an uncaught exception (status 1), or
\* the return of main() (status 0).  `at` is the function of this program
\* the exception was raised in.
Terminate(status, exc, at) ==
  /\ pc' = "exit"
  /\ exit_status' = status
  /\ error' = [exc |-> exc, at |-> at]

\* the file at `path` after `lines` are appended (open(path, "a") creates it)
AppendTo(fs, path, lines) ==
  [p \in DOMAIN fs \cup {path} |->
     IF p = path
     THEN (IF path \in DOMAIN fs THEN fs[path] ELSE <<>>) \o lines
     ELSE fs[p]]

\* the bucket after `lines` are stored at `key` (an existing object is replaced)
PutObject(bucket, key, lines) ==
  [k \in DOMAIN bucket \cup {key} |-> IF k = key THEN lines ELSE bucket[k]]

\* ------------------------------------------------------------- main(): configuration
\* `not PG_DB or not PG_USER or not PG_PASSWORD or not TABLES`
RequiredMissing == PG_DB = "" \/ PG_USER = "" \/ PG_PASSWORD = "" \/ TABLES = <<>>

\* the bucket test left out
BucketMissing_never == FALSE

\* `not S3_BUCKET`
BucketMissing == S3_BUCKET = ""

ValidateConfig ==
  /\ pc = "validate"
  /\ IF RequiredMissing
     THEN /\ Terminate(1, "SystemExit", "main")
          /\ log' = Append(log, [tag |-> "ERROR", what |-> <<"c", "f", "g">>])
     ELSE IF BucketMissing
     THEN /\ Terminate(1, "SystemExit", "main")
          /\ log' = Append(log, [tag |-> "ERROR", what |-> <<"s", "3">>])
     ELSE /\ pc' = "prepare"
          /\ UNCHANGED <<exit_status, error, log>>
  /\ UNCHANGED <<env, tbl, exported_files, upl, local, guard>>
  /\ UNCHANGED <<dir_made, files, db_calls, uploads, s3, exports>>

\* ensure_output_dir(OUTPUT_DIR); get_engine() opens no connection
Prepare ==
  /\ pc = "prepare"
  /\ dir_made' = TRUE
  /\ pc' = "tables"
  /\ UNCHANGED <<env, tbl, exported_files, upl, exit_status, error, local, guard>>
  /\ UNCHANGED <<files, db_calls, uploads, s3, log, exports>>

\* os.makedirs raises
PrepareRaises ==
  /\ pc = "prepare"
  /\ Terminate(1, "OSError", "ensure_output_dir")
  /\ UNCHANGED <<env, tbl, exported_files, upl, local, world, guard>>

\* ------------------------------------------------------------- main(): export phase
\* table_exists(engine, tbl): the count of catalog rows for (PG_SCHEMA, tbl) is
\* positive.  The statement is parameterised; the name is a bound parameter.
table_exists(table_name) == table_name \in DOMAIN db

\* a statement sent to the database, with the name it carries and its outcome
CatalogQuery(table_name, answer) ==
  [fn |-> "table_exists", table |-> table_name, answer |-> answer]
SelectQuery(schema, table, answer) ==
  [fn |-> "read_sql", table |-> table, answer |-> answer]

\* `break` in the place of `continue`
SkipTable_break ==
  /\ pc = "tables"
  /\ tbl <= Len(TABLES)
  /\ ~table_exists(TABLES[tbl])
  /\ db_calls' = Append(db_calls, CatalogQuery(TABLES[tbl], "false"))
  /\ log' = Append(log, [tag |-> "WARN", what |-> TABLES[tbl]])
  /\ pc' = "post"
  /\ UNCHANGED <<env, tbl, exported_files, upl, exit_status, error, local, guard>>
  /\ UNCHANGED <<dir_made, files, uploads, s3, exports>>

\* the table is absent: warn and `continue`
SkipTable ==
  /\ pc = "tables"
  /\ tbl <= Len(TABLES)
  /\ ~table_exists(TABLES[tbl])
  /\ db_calls' = Append(db_calls, CatalogQuery(TABLES[tbl], "false"))
  /\ log' = Append(log, [tag |-> "WARN", what |-> TABLES[tbl]])
  /\ tbl' = tbl + 1
  /\ UNCHANGED <<env, pc, exported_files, upl, exit_status, error, local, guard>>
  /\ UNCHANGED <<dir_made, files, uploads, s3, exports>>

\* the table is present: call export_table_to_csv
EnterExport ==
  /\ pc = "tables"
  /\ tbl <= Len(TABLES)
  /\ table_exists(TABLES[tbl])
  /\ db_calls' = Append(db_calls, CatalogQuery(TABLES[tbl], "true"))
  /\ pc' = "export"
  /\ UNCHANGED <<env, tbl, exported_files, upl, exit_status, error, local, guard>>
  /\ UNCHANGED <<dir_made, files, uploads, s3, log, exports>>

\* the catalog query fails (connection, permission): the exception leaves main
ExistsRaises ==
  /\ pc = "tables"
  /\ tbl <= Len(TABLES)
  /\ db_calls' = Append(db_calls, CatalogQuery(TABLES[tbl], "raise"))
  /\ Terminate(1, "DatabaseError", "table_exists")
  /\ UNCHANGED <<env, tbl, exported_files, upl, local, guard>>
  /\ UNCHANGED <<dir_made, files, uploads, s3, log, exports>>

\* main catches the ValueError and goes on with the next table
GuardRaises_skips ==
  /\ pc = "export"
  /\ ~safe_ident(TABLES[tbl]).ok \/ ~safe_ident(PG_SCHEMA).ok
  /\ log' = Append(log, [tag |-> "ERROR", what |-> TABLES[tbl]])
  /\ tbl' = tbl + 1
  /\ pc' = "tables"
  /\ UNCHANGED <<env, exported_files, upl, exit_status, error, local, guard>>
  /\ UNCHANGED <<dir_made, files, db_calls, uploads, s3, exports>>

\* export_table_to_csv, lines 82-83: a name the guard refuses
GuardRaises ==
  /\ pc = "export"
  /\ ~safe_ident(TABLES[tbl]).ok \/ ~safe_ident(PG_SCHEMA).ok
  /\ Terminate(1, "ValueError", "export_table_to_csv")
  /\ UNCHANGED <<env, tbl, exported_files, upl, local, world, guard>>

\* export_table_to_csv, lines 82-93: both names pass, the SELECT is built and
\* sent, the locals are set
BeginExport ==
  /\ pc = "export"
  /\ safe_ident(TABLES[tbl]).ok /\ safe_ident(PG_SCHEMA).ok
  /\ db_calls' = Append(db_calls,
        SelectQuery(safe_ident(PG_SCHEMA).value, safe_ident(TABLES[tbl]).value, "rows"))
  /\ header_written' = FALSE
  /\ row_count' = 0
  /\ fetched' = 0
  /\ yielded' = 0
  /\ appends' = <<>>
  /\ pc' = "chunks"
  /\ UNCHANGED <<env, tbl, exported_files, upl, exit_status, error, guard>>
  /\ UNCHANGED <<dir_made, files, uploads, s3, log, exports>>

\* pd.read_sql raises when the SELECT is sent
ReadSqlRaises ==
  /\ pc = "export"
  /\ safe_ident(TABLES[tbl]).ok /\ safe_ident(PG_SCHEMA).ok
  /\ db_calls' = Append(db_calls,
        SelectQuery(safe_ident(PG_SCHEMA).value, safe_ident(TABLES[tbl]).value, "raise"))
  /\ Terminate(1, "DatabaseError", "export_table_to_csv")
  /\ UNCHANGED <<env, tbl, exported_files, upl, local, guard>>
  /\ UNCHANGED <<dir_made, files, uploads, s3, log, exports>>

\* The read_sql generator has another chunk: rows are left, or the result is
\* empty, nothing was yielded yet and this pandas yields one empty frame.
HasNextChunk(total) ==
  \/ fetched < total
  \/ total = 0 /\ yielded = 0 /\ emptyFrame

\* the chunk the generator yields next
NextChunk(total) == FetchMany(fetched, total, CHUNKSIZE)

\* one iteration of `for chunk in pd.read_sql(...)`, lines 93-104
AppendChunk ==
  /\ pc = "chunks"
  /\ HasNextChunk(db[TABLES[tbl]])
  /\ LET chunk == NextChunk(db[TABLES[tbl]])
         path  == OutPath(OUTPUT_DIR, TABLES[tbl])
     IN /\ files' = AppendTo(files, path, CsvLines(chunk, ~header_written))
        /\ row_count' = row_count + ChunkLen(chunk)
        /\ header_written' = TRUE
        /\ fetched' = fetched + Len(chunk)
        /\ yielded' = yielded + 1
        /\ appends' = Append(appends, chunk)
  /\ UNCHANGED <<env, main, guard>>
  /\ UNCHANGED <<dir_made, db_calls, uploads, s3, log, exports>>

\* the generator's fetch raises in the middle of the stream
FetchRaises ==
  /\ pc = "chunks"
  /\ Terminate(1, "DatabaseError", "export_table_to_csv")
  /\ UNCHANGED <<env, tbl, exported_files, upl, local, world, guard>>

\* chunk.to_csv raises: the file may not have been opened, or holds only the
\* first lines of the chunk
ToCsvRaises ==
  /\ pc = "chunks"
  /\ HasNextChunk(db[TABLES[tbl]])
  /\ LET chunk == NextChunk(db[TABLES[tbl]])
         path  == OutPath(OUTPUT_DIR, TABLES[tbl])
         lines == CsvLines(chunk, ~header_written)
     IN \/ UNCHANGED files
        \/ \E k \in 0..(Len(lines) - 1) :
              files' = AppendTo(files, path, SubSeq(lines, 1, k))
  /\ Terminate(1, "OSError", "export_table_to_csv")
  /\ UNCHANGED <<env, tbl, exported_files, upl, local, guard>>
  /\ UNCHANGED <<dir_made, db_calls, uploads, s3, log, exports>>

\* the generator is exhausted: lines 106-107, then main appends the path
FinishExport ==
  /\ pc = "chunks"
  /\ ~HasNextChunk(db[TABLES[tbl]])
  /\ LET path == OutPath(OUTPUT_DIR, TABLES[tbl])
     IN /\ log' = Append(log, [tag |-> "OK", what |-> TABLES[tbl]])
        /\ exported_files' = Append(exported_files, path)
        /\ exports' = Append(exports,
              [table |-> TABLES[tbl], rows |-> db[TABLES[tbl]], path |-> path,
               chunks |-> appends, row_count |-> row_count])
  /\ tbl' = tbl + 1
  /\ pc' = "tables"
  /\ UNCHANGED <<env, upl, exit_status, error, local, guard>>
  /\ UNCHANGED <<dir_made, files, db_calls, uploads, s3>>

\* the loop over TABLES is over
EndTables ==
  /\ pc = "tables"
  /\ tbl > Len(TABLES)
  /\ pc' = "post"
  /\ UNCHANGED <<env, tbl, exported_files, upl, exit_status, error, local, world, guard>>

\* ------------------------------------------------------------- main(): after the export
\* the test for an empty export list left out
NoExports_proceeds ==
  /\ pc = "post"
  /\ exported_files = <<>>
  /\ pc' = "uploads"
  /\ UNCHANGED <<env, tbl, exported_files, upl, exit_status, error, local, world, guard>>

\* `if not exported_files: sys.exit(2)`
NoExports ==
  /\ pc = "post"
  /\ exported_files = <<>>
  /\ log' = Append(log, [tag |-> "INFO", what |-> <<>>])
  /\ Terminate(2, "SystemExit", "main")
  /\ UNCHANGED <<env, tbl, exported_files, upl, local, guard>>
  /\ UNCHANGED <<dir_made, files, db_calls, uploads, s3, exports>>

StartUploads ==
  /\ pc = "post"
  /\ exported_files # <<>>
  /\ pc' = "uploads"
  /\ UNCHANGED <<env, tbl, exported_files, upl, exit_status, error, local, world, guard>>

\* ------------------------------------------------------------- main(): upload phase
UploadErrors == {"NoCredentialsError", "ClientError", "OSError"}

Attempt(path, outcome) ==
  [path |-> path, key |-> S3Key(path, S3_PREFIX), bucket |-> S3_BUCKET,
   outcome |-> outcome]

\* upload_to_s3 succeeds: the object is stored under the key
UploadOk ==
  /\ pc = "uploads"
  /\ upl <= Len(exported_files)
  /\ exported_files[upl] \in DOMAIN files
  /\ LET path == exported_files[upl]
     IN /\ s3' = PutObject(s3, S3Key(path, S3_PREFIX), files[path])
        /\ uploads' = Append(uploads, Attempt(path, "ok"))
        /\ log' = Append(log, [tag |-> "UP", what |-> S3Key(path, S3_PREFIX)])
  /\ upl' = upl + 1
  /\ UNCHANGED <<env, pc, tbl, exported_files, exit_status, error, local, guard>>
  /\ UNCHANGED <<dir_made, files, db_calls, exports>>

\* the exception printed and not re-raised
UploadRaises_swallowed ==
  /\ pc = "uploads"
  /\ upl <= Len(exported_files)
  /\ \E e \in UploadErrors :
        /\ e = "OSError" <=> exported_files[upl] \notin DOMAIN files
        /\ uploads' = Append(uploads, Attempt(exported_files[upl], e))
        /\ log' = Append(log, [tag |-> "ERROR", what |-> <<e>>])
  /\ upl' = upl + 1
  /\ UNCHANGED <<env, pc, tbl, exported_files, exit_status, error, local, guard>>
  /\ UNCHANGED <<dir_made, files, db_calls, s3, exports>>

\* cli.upload_file raises: credentials and client errors are printed and
\* re-raised, anything else (a missing local file) propagates as it is
UploadRaises ==
  /\ pc = "uploads"
  /\ upl <= Len(exported_files)
  /\ \E e \in UploadErrors :
        /\ e = "OSError" <=> exported_files[upl] \notin DOMAIN files
        /\ uploads' = Append(uploads, Attempt(exported_files[upl], e))
        /\ log' = IF e = "OSError" THEN log
                  ELSE Append(log, [tag |-> "ERROR", what |-> <<e>>])
        /\ Terminate(1, e, "upload_to_s3")
  /\ UNCHANGED <<env, tbl, exported_files, upl, local, guard>>
  /\ UNCHANGED <<dir_made, files, db_calls, s3, exports>>

\* "[DONE]" not waiting for the uploads
Done_early ==
  /\ pc = "uploads"
  /\ log' = Append(log, [tag |-> "DONE", what |-> <<>>])
  /\ Terminate(0, "none", "none")
  /\ UNCHANGED <<env, tbl, exported_files, upl, local, guard>>
  /\ UNCHANGED <<dir_made, files, db_calls, uploads, s3, exports>>

\* every upload returned: "[DONE]", main returns
Done ==
  /\ pc = "uploads"
  /\ upl > Len(exported_files)
  /\ log' = Append(log, [tag |-> "DONE", what |-> <<>>])
  /\ Terminate(0, "none", "none")
  /\ UNCHANGED <<env, tbl, exported_files, upl, local, guard>>
  /\ UNCHANGED <<dir_made, files, db_calls, uploads, s3, exports>>

Next ==
  \/ ValidateConfig
  \/ Prepare
  \/ PrepareRaises
  \/ SkipTable
  \/ EnterExport
  \/ ExistsRaises
  \/ GuardRaises
  \/ BeginExport
  \/ ReadSqlRaises
  \/ AppendChunk
  \/ FetchRaises
  \/ ToCsvRaises
  \/ FinishExport
  \/ EndTables
  \/ NoExports
  \/ StartUploads
  \/ UploadOk
  \/ UploadRaises
  \/ Done

Spec == Init /\ [][Next]_vars

\* ------------------------------------------------------------- safe_ident on its own
InitGuard ==
  /\ PG_DB = "x" /\ PG_USER = "x" /\ PG_PASSWORD = "x" /\ S3_BUCKET = "x"
  /\ PG_SCHEMA = <<"p">>
  /\ S3_PREFIX = <<>>
  /\ CHUNKSIZE = 1
  /\ TABLES = <<>>
  /\ db = <<>>
  /\ emptyFrame = TRUE
  /\ InitRun
  /\ name \in StringsUpTo(Alphabet, MaxLen)
  /\ result = Idle

CallGuard ==
  /\ result = Idle
  /\ result' = safe_ident(name)
  /\ UNCHANGED <<env, main, local, world, name>>

NextGuard == CallGuard

SpecGuard == InitGuard /\ [][NextGuard]_vars

\* ============================================================= properties
ConfigComplete ==
  PG_DB # "" /\ PG_USER # "" /\ PG_PASSWORD # "" /\ TABLES # <<>> /\ S3_BUCKET # ""

Present(t) == t \in DOMAIN db
Absent(t)  == t \notin DOMAIN db

LogTagged(tag) == SelectSeq(log, LAMBDA l : l.tag = tag)

\* ------------------------------------------------------------- C1
\* C1: a configured table name that does not match ^[A-Za-z0-9_]+$ is
\* rejected by the guard before any query is built for it: no statement of
\* any kind, the existence check included, is sent to the database with that
\* name, and the name is never passed over with a mere warning.
C1_NoDbCallWithInvalidName ==
  /\ \A k \in DOMAIN db_calls : StrictIdent(db_calls[k].table)
  /\ \A k \in DOMAIN log : log[k].tag = "WARN" => StrictIdent(log[k].what)

\* ------------------------------------------------------------- C2
OneHeaderFirst(lines) ==
  /\ Len(lines) >= 1
  /\ lines[1] = 0
  /\ \A k \in 2..Len(lines) : lines[k] # 0

\* C2: once the loop over TABLES is over, every CSV file the run wrote holds
\* exactly one header line, and it is the first line of the file.
C2_OneHeaderFirst ==
  tbl > Len(TABLES) => \A p \in DOMAIN files : OneHeaderFirst(files[p])

\* ------------------------------------------------------------- C3
\* C3: when a required setting is missing (PG_DB, PG_USER, PG_PASSWORD, a
\* table, S3_BUCKET) the run ends with exit status 1 as its first step and
\* has made no directory, sent no statement and attempted no upload.
C3_MissingConfigExit1NoIO ==
  ~ConfigComplete =>
     /\ pc \in {"validate", "exit"}
     /\ pc = "exit" => exit_status = 1
     /\ ~dir_made
     /\ db_calls = <<>>
     /\ uploads = <<>>
     /\ files = <<>> /\ s3 = <<>>

\* a run that stopped for the missing bucket alone
C3_Witness ==
  /\ pc = "exit" /\ exit_status = 1
  /\ S3_BUCKET = ""
  /\ PG_DB # "" /\ PG_USER # "" /\ PG_PASSWORD # "" /\ TABLES # <<>>

\* ------------------------------------------------------------- C7
\* C7: safe_ident accepts a string exactly when it is non-empty and made of
\* ASCII letters, digits and underscores only; it returns an accepted string
\* unchanged and raises for every other string.
C7_GuardIffStrict ==
  result # Idle =>
     /\ result.ok <=> StrictIdent(name)
     /\ result.ok => result.value = name
     /\ ~result.ok => result.error = "ValueError"

\* ------------------------------------------------------------- C4
PathsOf(tables) == [k \in DOMAIN tables |-> OutPath(OUTPUT_DIR, tables[k])]
Handled == SubSeq(TABLES, 1, tbl - 1)
Warned  == [k \in DOMAIN LogTagged("WARN") |-> LogTagged("WARN")[k].what]
UploadedPaths == [k \in DOMAIN uploads |-> uploads[k].path]
AllUploadsOk  == \A k \in DOMAIN uploads : uploads[k].outcome = "ok"

\* C4: an absent table is skipped and is no error: the tables warned about
\* are exactly the absent ones among the tables handled so far, in order,
\* none of them is exported, the loop goes on after each of them, and a run
\* that ends with status 0 has warned about every absent table and uploaded
\* exactly the files of the present ones.
C4_AbsentSkipped ==
  /\ Warned = SelectSeq(Handled, Absent)
  /\ \A k \in DOMAIN Warned : pc \in {"tables", "export", "chunks"} => tbl > k
  /\ \A k \in DOMAIN exports : Present(exports[k].table)
  /\ exit_status = 0 =>
        /\ Warned = SelectSeq(TABLES, Absent)
        /\ UploadedPaths = PathsOf(SelectSeq(TABLES, Present))
        /\ AllUploadsOk
        /\ DOMAIN s3 = {S3Key(p, S3_PREFIX) : p \in Range(UploadedPaths)}

\* a run that skipped an absent table, exported a later one and ended well
C4_Witness ==
  /\ exit_status = 0
  /\ \E j, k \in DOMAIN TABLES : j < k /\ Absent(TABLES[j]) /\ Present(TABLES[k])

\* ------------------------------------------------------------- C5
AllAbsent == \A k \in DOMAIN TABLES : Absent(TABLES[k])

\* C5: with complete configuration and every configured table absent, no
\* upload is attempted, and the run that has checked all the tables ends with
\* exit status 2.
C5_AllAbsentExit2 ==
  (ConfigComplete /\ AllAbsent) =>
     /\ uploads = <<>> /\ s3 = <<>>
     /\ pc # "uploads"
     /\ (pc = "exit" /\ tbl > Len(TABLES)) => exit_status = 2

C5_Witness ==
  /\ ConfigComplete /\ AllAbsent
  /\ pc = "exit" /\ exit_status = 2
  /\ Len(Warned) = Len(TABLES)

\* ------------------------------------------------------------- C6
Reported(tag) == \E k \in DOMAIN log : log[k].tag = tag

C6_FailureIsLast ==
  \A k \in DOMAIN uploads :
     uploads[k].outcome # "ok" =>
        /\ k = Len(uploads)
        /\ pc = "exit"
        /\ exit_status \notin {-1, 0}
        /\ ~Reported("DONE")
        /\ \A e \in DOMAIN exports :
              exports[e].chunks # <<>> => exports[e].path \in DOMAIN files

\* C6: a failed upload is the last one attempted and ends the run with a
\* non-zero status and without the completion report; no step of the upload
\* phase changes a local file.
C6_UploadFailureAborts ==
  /\ []C6_FailureIsLast
  /\ [][pc = "uploads" => files' = files]_vars

\* a credentials error on the first of two exported files
C6_Witness ==
  /\ pc = "exit"
  /\ Len(uploads) = 1 /\ uploads[1].outcome = "NoCredentialsError"
  /\ Len(exported_files) = 2
  /\ files # <<>>

\* ------------------------------------------------------------- C8
InOrder(e) == Flatten(e.chunks) = [k \in 1..e.rows |-> k]
AtMost(e)  == \A k \in DOMAIN e.chunks : Len(e.chunks[k]) <= CHUNKSIZE

\* C8: a completed export of a table of R rows with chunk size C has made
\* exactly ceil(R / C) appends, of at most C rows each, of the rows in result
\* order, and counted R rows.
C8_CeilChunks ==
  \A k \in DOMAIN exports :
     /\ Len(exports[k].chunks) = CeilDiv(exports[k].rows, CHUNKSIZE)
     /\ AtMost(exports[k])
     /\ InOrder(exports[k])
     /\ exports[k].row_count = exports[k].rows

\* C8 amended: as C8 for R >= 1; for R = 0 the export makes one append, of an
\* empty chunk, when read_sql yields an empty frame for an empty result, and
\* none otherwise.
C8_CeilChunksOrEmptyFrame ==
  \A k \in DOMAIN exports :
     /\ exports[k].rows >= 1 =>
           Len(exports[k].chunks) = CeilDiv(exports[k].rows, CHUNKSIZE)
     /\ exports[k].rows = 0 =>
           exports[k].chunks = (IF emptyFrame THEN << <<>> >> ELSE <<>>)
     /\ AtMost(exports[k])
     /\ InOrder(exports[k])
     /\ exports[k].row_count = exports[k].rows

\* an export of an empty table in one append and one of a table in two chunks
C8_Witness ==
  /\ \E k \in DOMAIN exports : exports[k].rows = 0 /\ Len(exports[k].chunks) = 1
  /\ \E k \in DOMAIN exports : exports[k].rows >= 2 /\ Len(exports[k].chunks) >= 2

\* ------------------------------------------------------------- C9
Catalog == SelectSeq(db_calls, LAMBDA c : c.fn = "table_exists")
Entered == SelectSeq(Catalog, LAMBDA c : c.answer = "true")

\* an export_table_to_csv call was entered and left without returning
ExportFailed == Len(Entered) > Len(exports) /\ pc \notin {"export", "chunks"}

\* C9: when export_table_to_csv fails the run has ended with a non-zero
\* status, the failing table is the last one whose existence was checked, and
\* nothing has been uploaded, the files of earlier tables included.
C9_ExportFailureAborts ==
  ExportFailed =>
     /\ pc = "exit"
     /\ exit_status \notin {-1, 0}
     /\ error.at = "export_table_to_csv"
     /\ Len(Entered) = Len(exports) + 1
     /\ Catalog[Len(Catalog)].answer = "true"
     /\ Len(Catalog) = tbl
     /\ uploads = <<>> /\ s3 = <<>>
     /\ ~Reported("UP") /\ ~Reported("DONE")

\* an export fails after an earlier table was exported
C9_Witness ==
  /\ ExportFailed
  /\ exported_files # <<>>
  /\ exported_files[1] \in DOMAIN files

\* ------------------------------------------------------------- C10
\* C10: an upload is attempted only when every configured table has been
\* handled; the uploads follow the list of exported files, which follows
\* TABLES; and status 0 and "[DONE]" come only when every exported file has
\* been uploaded.
C10_PhasesOrdered ==
  /\ exported_files = PathsOf(SelectSeq(Handled, Present))
  /\ uploads # <<>> => tbl > Len(TABLES) /\ pc \in {"uploads", "exit"}
  /\ Len(uploads) <= Len(exported_files)
  /\ UploadedPaths = SubSeq(exported_files, 1, Len(uploads))
  /\ (exit_status = 0 \/ Reported("DONE")) =>
        /\ exit_status = 0
        /\ log[Len(log)].tag = "DONE"
        /\ Len(uploads) = Len(exported_files)
        /\ AllUploadsOk
        /\ uploads # <<>>

\* two files uploaded in the order of TABLES, then success
C10_Witness ==
  /\ exit_status = 0
  /\ Len(uploads) = 2
  /\ uploads[1].path # uploads[2].path

====
